---------------------------- MODULE Spec2Model ----------------------------
(***************************************************************************)
(* Model of the WSJ FX quote handler (src/api/fx.js).  Its older variant   *)
(* src/API/fx.js has the same priorBizIfWeekend and the same symbol tests  *)
(* in fetchWSJ; they are modelled once.                                    *)
(*                                                                         *)
(* JavaScript strings are modelled as sequences of one-character strings,  *)
(* so that trimming, case mapping, splitting, padding and the regular      *)
(* expressions are computed character by character.  The empty sequence    *)
(* stands for every falsy string-like input (undefined, null, "").         *)
(***************************************************************************)
EXTENDS Integers, Sequences, FiniteSets, TLC

(***************************************************************************)
(* Characters                                                              *)
(***************************************************************************)
DigitChars == <<"0", "1", "2", "3", "4", "5", "6", "7", "8", "9">>

UpperChars == <<"A", "B", "C", "D", "E", "F", "G", "H", "I", "J", "K", "L", "M",
                "N", "O", "P", "Q", "R", "S", "T", "U", "V", "W", "X", "Y", "Z">>

LowerChars == <<"a", "b", "c", "d", "e", "f", "g", "h", "i", "j", "k", "l", "m",
                "n", "o", "p", "q", "r", "s", "t", "u", "v", "w", "x", "y", "z">>

Range(f) == {f[i] : i \in DOMAIN f}

DigitSet == Range(DigitChars)

UpperSet == Range(UpperChars)

LowerSet == Range(LowerChars)

IsDigit(c) == c \in DigitSet

IsUpper(c) == c \in UpperSet

IsLower(c) == c \in LowerSet

\* White space as String.prototype.trim sees it (the characters the inputs use).
IsSpace(c) == c \in {" ", "\t", "\r", "\n"}

DigitValues == [c \in DigitSet |-> (CHOOSE i \in DOMAIN DigitChars : DigitChars[i] = c) - 1]

DigitVal(c) == DigitValues[c]

UpperOf == [c \in LowerSet |-> UpperChars[CHOOSE i \in DOMAIN LowerChars : LowerChars[i] = c]]

LowerOf == [c \in UpperSet |-> LowerChars[CHOOSE i \in DOMAIN UpperChars : UpperChars[i] = c]]

\* String.prototype.toUpperCase, on the ASCII letters.
UpperChar(c) == IF c \in LowerSet THEN UpperOf[c] ELSE c

\* String.prototype.toLowerCase, on the ASCII letters.
LowerChar(c) == IF c \in UpperSet THEN LowerOf[c] ELSE c

toUpperCase(s) == [i \in DOMAIN s |-> UpperChar(s[i])]

toLowerCase(s) == [i \in DOMAIN s |-> LowerChar(s[i])]

RECURSIVE TrimStart(_)
TrimStart(s) == IF s # <<>> /\ IsSpace(Head(s)) THEN TrimStart(Tail(s)) ELSE s

RECURSIVE TrimEnd(_)
TrimEnd(s) ==
    IF s # <<>> /\ IsSpace(s[Len(s)]) THEN TrimEnd(SubSeq(s, 1, Len(s) - 1)) ELSE s

\* String.prototype.trim
trim(s) == TrimEnd(TrimStart(s))

\* The k-th smallest element of a finite set of integers.
Kth(S, k) == CHOOSE x \in S : Cardinality({y \in S : y < x}) = k - 1

\* String.prototype.split(sep) for a one-character separator: the pieces between
\* the separators, the empty ones included ("" splits into one empty piece).
split(s, sep) ==
    LET at  == {i \in DOMAIN s : s[i] = sep}
        n   == Cardinality(at)
        cut == [k \in 0..(n + 1) |->
                   IF k = 0 THEN 0 ELSE IF k = n + 1 THEN Len(s) + 1 ELSE Kth(at, k)]
    IN [k \in 1..(n + 1) |-> SubSeq(s, cut[k - 1] + 1, cut[k] - 1)]

\* Array.prototype.filter(Boolean) on strings: the non-empty ones, in order.
RECURSIVE filterBoolean(_)
filterBoolean(list) ==
    IF list = <<>> THEN <<>>
    ELSE IF Head(list) = <<>> THEN filterBoolean(Tail(list))
    ELSE <<Head(list)>> \o filterBoolean(Tail(list))

\* Array.prototype.join(",")
RECURSIVE join(_)
join(list) ==
    IF list = <<>> THEN <<>>
    ELSE IF Len(list) = 1 THEN Head(list)
    ELSE Head(list) \o <<",">> \o join(Tail(list))

\* String.prototype.padStart(2, "0")
padStart2(s) == IF Len(s) = 0 THEN <<"0", "0">> ELSE IF Len(s) = 1 THEN <<"0">> \o s ELSE s

\* String(n).padStart(2, "0") for 0 <= n <= 99
Pad2(n) == <<DigitChars[(n \div 10) + 1], DigitChars[(n % 10) + 1]>>

\* String(n) for 0 <= n <= 9999, left-padded to four digits as toISOString does.
Pad4(n) == Pad2(n \div 100) \o Pad2(n % 100)

\* The number a sequence of decimal digits denotes.
RECURSIVE DigitsVal(_)
DigitsVal(s) ==
    IF s = <<>> THEN 0 ELSE DigitsVal(SubSeq(s, 1, Len(s) - 1)) * 10 + DigitVal(s[Len(s)])

(***************************************************************************)
(* Dates: the Date object (parse, getDay, setDate, toISOString)            *)
(***************************************************************************)

\* Day number since 1970-01-01 of a proleptic Gregorian date (ECMAScript MakeDay).
DaysFromCivil(y, m, d) ==
    LET yy  == IF m <= 2 THEN y - 1 ELSE y
        era == yy \div 400
        yoe == yy - era * 400
        mp  == IF m > 2 THEN m - 3 ELSE m + 9
        doy == ((153 * mp + 2) \div 5) + d - 1
        doe == yoe * 365 + (yoe \div 4) - (yoe \div 100) + doy
    IN era * 146097 + doe - 719468

\* The date of a day number (ECMAScript YearFromTime, MonthFromTime, DateFromTime).
CivilFromDays(z) ==
    LET zz  == z + 719468
        era == zz \div 146097
        doe == zz - era * 146097
        yoe == (doe - (doe \div 1460) + (doe \div 36524) - (doe \div 146096)) \div 365
        doy == doe - (365 * yoe + (yoe \div 4) - (yoe \div 100))
        mp  == (5 * doy + 2) \div 153
        d   == doy - ((153 * mp + 2) \div 5) + 1
        m   == IF mp < 10 THEN mp + 3 ELSE mp - 9
        y   == yoe + era * 400 + (IF m <= 2 THEN 1 ELSE 0)
    IN [y |-> y, m |-> m, d |-> d]

\* Day of the week of a day number, 0 Sunday .. 6 Saturday (1970-01-01: Thursday).
WeekDay(z) == (z + 4) % 7

\* /^\d{4}-\d{2}-\d{2}$/.test(date)
DateRegex(s) ==
    /\ Len(s) = 10
    /\ \A i \in {1, 2, 3, 4, 6, 7, 9, 10} : IsDigit(s[i])
    /\ s[5] = "-"
    /\ s[8] = "-"

IsoYear(s) == DigitsVal(SubSeq(s, 1, 4))

IsoMonth(s) == DigitsVal(SubSeq(s, 6, 7))

IsoDay(s) == DigitsVal(SubSeq(s, 9, 10))

\* Whether new Date(iso + "T00:00:00...") is a valid time, for iso matching
\* DateRegex: V8 takes months 1..12 and days 1..31 (a day past the month's end rolls
\* into the next month) and gives Invalid Date otherwise.
DateParses(s) == IsoMonth(s) \in 1..12 /\ IsoDay(s) \in 1..31

\* Date.prototype.toISOString().slice(0, 10) of a day number
IsoOfDays(z) ==
    LET c == CivilFromDays(z)
    IN Pad4(c.y) \o <<"-">> \o Pad2(c.m) \o <<"-">> \o Pad2(c.d)

RangeError == <<"R", "a", "n", "g", "e", "E", "r", "r", "o", "r">>

\* priorBizIfWeekend(iso) in a process whose local time is UTC + tz hours.
\* new Date(iso + "T00:00:00-04:00") is the instant 04:00 UTC of that day; getDay and
\* setDate work in local time, toISOString in UTC.  An Invalid Date makes
\* toISOString throw (RangeError).
priorBizIfWeekend(iso, tz) ==
    IF ~DateParses(iso) THEN RangeError
    ELSE LET t     == DaysFromCivil(IsoYear(iso), IsoMonth(iso), IsoDay(iso)) * 24 + 4
             local == t + tz
             wd    == WeekDay(local \div 24)
             back  == IF wd = 6 THEN 1 ELSE IF wd = 0 THEN 2 ELSE 0
             t2    == (local - 24 * back) - tz
         IN IsoOfDays(t2 \div 24)

\* toMMDDYYYY(iso): UTC fields of new Date(iso + "T00:00:00Z")
toMMDDYYYY(iso) ==
    LET c == CivilFromDays(DaysFromCivil(IsoYear(iso), IsoMonth(iso), IsoDay(iso)))
    IN Pad2(c.m) \o <<"/">> \o Pad2(c.d) \o <<"/">> \o Pad4(c.y)

(***************************************************************************)
(* String comparison and number syntax                                     *)
(***************************************************************************)

OtherChars == {"\t", "\n", "\r", " ", "%", "+", ",", "-", ".", "/", "_"}

\* UTF-16 code unit of the characters the inputs use.
CharCodes ==
    [c \in DigitSet \cup UpperSet \cup LowerSet \cup OtherChars |->
        IF c \in DigitSet THEN 48 + DigitValues[c]
        ELSE IF c \in UpperSet THEN 64 + (CHOOSE i \in DOMAIN UpperChars : UpperChars[i] = c)
        ELSE IF c \in LowerSet THEN 96 + (CHOOSE i \in DOMAIN LowerChars : LowerChars[i] = c)
        ELSE IF c = "\t" THEN 9
        ELSE IF c = "\n" THEN 10
        ELSE IF c = "\r" THEN 13
        ELSE IF c = " " THEN 32
        ELSE IF c = "%" THEN 37
        ELSE IF c = "+" THEN 43
        ELSE IF c = "," THEN 44
        ELSE IF c = "-" THEN 45
        ELSE IF c = "." THEN 46
        ELSE IF c = "/" THEN 47
        ELSE 95]

CharCode(c) == CharCodes[c]

\* The sign of the comparison of a and b in code-unit order: -1, 0 or 1.
RECURSIVE LexCompare(_, _)
LexCompare(a, b) ==
    IF a = <<>> /\ b = <<>> THEN 0
    ELSE IF a = <<>> THEN -1
    ELSE IF b = <<>> THEN 1
    ELSE IF CharCode(Head(a)) < CharCode(Head(b)) THEN -1
    ELSE IF CharCode(Head(a)) > CharCode(Head(b)) THEN 1
    ELSE LexCompare(Tail(a), Tail(b))

\* a > b on strings (code-unit order)
StrGreater(a, b) == LexCompare(a, b) = 1

\* a.localeCompare(b): for the upper-cased symbols of letters and digits the
\* collation order is the lexicographic one (digits before letters, a prefix first).
localeCompare(a, b) == LexCompare(a, b)

AllDigits(s) == \A i \in DOMAIN s : IsDigit(s[i])

\* Positions of the characters of s that belong to set cs.
Positions(s, cs) == {i \in DOMAIN s : s[i] \in cs}

Min(S) == CHOOSE x \in S : \A y \in S : x <= y

Max(S) == CHOOSE x \in S : \A y \in S : x >= y

Unsigned(s) == IF s # <<>> /\ Head(s) \in {"+", "-"} THEN Tail(s) ELSE s

\* DecimalDigits [. DecimalDigits?] | . DecimalDigits
IsMantissa(s) ==
    LET dots == Positions(s, {"."})
    IN IF dots = {} THEN s # <<>> /\ AllDigits(s)
       ELSE LET k     == Min(dots)
                left  == SubSeq(s, 1, k - 1)
                right == SubSeq(s, k + 1, Len(s))
            IN AllDigits(left) /\ AllDigits(right) /\ Len(left) + Len(right) > 0

Infinity == <<"I", "n", "f", "i", "n", "i", "t", "y">>

\* !isNaN(Number(s)) for a trimmed non-empty s: the StrDecimalLiteral syntax
\* (sign, digits, fraction, exponent, Infinity); the inputs use no 0x/0o/0b literal.
IsNumeric(s) ==
    LET u  == Unsigned(s)
        es == Positions(u, {"e", "E"})
    IN \/ u = Infinity
       \/ /\ es = {}
          /\ IsMantissa(u)
       \/ /\ es # {}
          /\ IsMantissa(SubSeq(u, 1, Min(es) - 1))
          /\ LET x == Unsigned(SubSeq(u, Min(es) + 1, Len(u)))
             IN x # <<>> /\ AllDigits(x)

(***************************************************************************)
(* parseWSJCSV                                                             *)
(***************************************************************************)

\* One piece of text.split(/\r?\n/) that is followed by a line break: the \r
\* before the \n belongs to the separator.
DropCR(s) == IF s # <<>> /\ s[Len(s)] = "\r" THEN SubSeq(s, 1, Len(s) - 1) ELSE s

\* String.prototype.split(/\r?\n/)
splitLines(s) ==
    LET p == split(s, "\n")
    IN [i \in DOMAIN p |-> IF i < Len(p) THEN DropCR(p[i]) ELSE p[i]]

\* Array.prototype.indexOf, 0-based, -1 when absent
indexOf(list, x) ==
    LET hits == {i \in DOMAIN list : list[i] = x}
    IN IF hits = {} THEN -1 ELSE Min(hits) - 1

mapTrim(list) == [i \in DOMAIN list |-> trim(list[i])]

mapTrimOnly(list) == [i \in DOMAIN list |-> trim(list[i])]

mapTrimLower(list) == [i \in DOMAIN list |-> toLowerCase(trim(list[i]))]

sDate == <<"d", "a", "t", "e">>

sClose == <<"c", "l", "o", "s", "e">>

NotFound == [found |-> FALSE]

\* The ISO date of a row's date field, or <<>> when the field has not three
\* "/"-separated parts (the row is skipped).
RowIso(raw) ==
    LET parts == split(raw, "/")
    IN IF Len(parts) # 3 THEN <<>>
       ELSE LET mm == parts[1]
                dd == parts[2]
                y0 == parts[3]
                yy == IF Len(y0) = 2
                      THEN (IF StrGreater(y0, <<"5", "0">>) THEN <<"1", "9">> ELSE <<"2", "0">>) \o y0
                      ELSE y0
            IN yy \o <<"-">> \o padStart2(mm) \o <<"-">> \o padStart2(dd)

\* The scan of the data rows from row i on.
RECURSIVE ScanRows(_, _, _, _, _)
ScanRows(lines, i, iDate, iClose, isoWanted) ==
    IF i > Len(lines) THEN NotFound
    ELSE LET cols == mapTrim(split(lines[i], ","))
         IN IF Len(cols) < Max({iDate, iClose}) + 1
            THEN ScanRows(lines, i + 1, iDate, iClose, isoWanted)
            ELSE LET iso == RowIso(cols[iDate + 1])
                 IN IF iso = <<>> \/ iso # isoWanted
                    THEN ScanRows(lines, i + 1, iDate, iClose, isoWanted)
                    ELSE LET close == cols[iClose + 1]
                         IN IF close = <<>> \/ ~IsNumeric(close) THEN NotFound
                            ELSE [found |-> TRUE, date |-> iso, close |-> close]

parseWSJCSV(csv, isoWanted) ==
    IF csv = <<>> \/ Positions(csv, {"\n"}) = {} THEN NotFound
    ELSE LET lines  == splitLines(trim(csv))
             header == mapTrimLower(split(lines[1], ","))
             iDate  == indexOf(header, sDate)
             iClose == indexOf(header, sClose)
         IN IF iDate < 0 \/ iClose < 0 THEN NotFound
            ELSE ScanRows(lines, 2, iDate, iClose, isoWanted)

(***************************************************************************)
(* Constants of src/api/fx.js                                              *)
(***************************************************************************)
DEFAULT_SEED ==
    << <<"E", "U", "R", "U", "S", "D">>,
       <<"G", "B", "P", "U", "S", "D">>,
       <<"A", "U", "D", "U", "S", "D">>,
       <<"N", "Z", "D", "U", "S", "D">>,
       <<"J", "P", "Y", "U", "S", "D">>,
       <<"C", "A", "D", "U", "S", "D">>,
       <<"C", "H", "F", "U", "S", "D">>,
       <<"S", "E", "K", "U", "S", "D">>,
       <<"N", "O", "K", "U", "S", "D">>,
       <<"D", "K", "K", "U", "S", "D">>,
       <<"M", "X", "N", "U", "S", "D">>,
       <<"B", "R", "L", "U", "S", "D">>,
       <<"C", "N", "Y", "U", "S", "D">>,
       <<"K", "R", "W", "U", "S", "D">>,
       <<"I", "N", "R", "U", "S", "D">>,
       <<"Z", "A", "R", "U", "S", "D">>,
       <<"T", "R", "Y", "U", "S", "D">>,
       <<"P", "L", "N", "U", "S", "D">>,
       <<"H", "U", "F", "U", "S", "D">>,
       <<"C", "Z", "K", "U", "S", "D">>,
       <<"I", "L", "S", "U", "S", "D">>,
       <<"A", "E", "D", "U", "S", "D">>,
       <<"S", "A", "R", "U", "S", "D">>,
       <<"C", "L", "P", "U", "S", "D">>,
       <<"C", "O", "P", "U", "S", "D">>,
       <<"P", "E", "N", "U", "S", "D">>,
       <<"A", "R", "S", "U", "S", "D">>,
       <<"T", "H", "B", "U", "S", "D">>,
       <<"P", "H", "P", "U", "S", "D">>,
       <<"M", "Y", "R", "U", "S", "D">>,
       <<"I", "D", "R", "U", "S", "D">>,
       <<"T", "W", "D", "U", "S", "D">>,
       <<"S", "G", "D", "U", "S", "D">>,
       <<"H", "K", "D", "U", "S", "D">>,
       <<"R", "O", "N", "U", "S", "D">>,
       <<"B", "G", "N", "U", "S", "D">>,
       <<"Q", "A", "R", "U", "S", "D">>,
       <<"M", "A", "D", "U", "S", "D">>,
       <<"A", "O", "A", "U", "S", "D">>,
       <<"V", "N", "D", "U", "S", "D">>,
       <<"G", "H", "S", "U", "S", "D">>,
       <<"N", "G", "N", "U", "S", "D">> >>

MAJORS ==
    << <<"E", "U", "R", "U", "S", "D">>,
       <<"G", "B", "P", "U", "S", "D">>,
       <<"J", "P", "Y", "U", "S", "D">>,
       <<"A", "U", "D", "U", "S", "D">>,
       <<"N", "Z", "D", "U", "S", "D">>,
       <<"C", "A", "D", "U", "S", "D">>,
       <<"C", "H", "F", "U", "S", "D">>,
       <<"C", "N", "Y", "U", "S", "D">>,
       <<"S", "E", "K", "U", "S", "D">>,
       <<"N", "O", "K", "U", "S", "D">> >>

EXTENDED_ROWS == 30

CONCURRENCY == 6

NUM_ROWS == 50

sMajors == <<"m", "a", "j", "o", "r", "s">>

sExtended == <<"e", "x", "t", "e", "n", "d", "e", "d">>

sFull == <<"f", "u", "l", "l">>

sConstructor == <<"c", "o", "n", "s", "t", "r", "u", "c", "t", "o", "r">>

sProto == <<"_", "_", "p", "r", "o", "t", "o", "_", "_">>

sUSD == <<"U", "S", "D">>

\* COVERAGE[coverage] || COVERAGE.full.  COVERAGE is an object literal, so the
\* names it inherits from Object.prototype ("constructor", "__proto__") look up a
\* truthy value that is no array; every other unknown name is undefined.
CoverageLookup(coverage) ==
    IF coverage = sMajors THEN [array |-> TRUE, list |-> MAJORS]
    ELSE IF coverage = sExtended
    THEN [array |-> TRUE, list |-> SubSeq(DEFAULT_SEED, 1, EXTENDED_ROWS)]
    ELSE IF coverage \in {sConstructor, sProto} THEN [array |-> FALSE, list |-> <<>>]
    ELSE [array |-> TRUE, list |-> DEFAULT_SEED]

(***************************************************************************)
(* fetchWSJ                                                                *)
(***************************************************************************)

\* /^[A-Z]{6}$/.test(symbol)
SymbolRegex(s) == Len(s) = 6 /\ \A i \in DOMAIN s : IsUpper(s[i])

includesUSD(s) == \E i \in 1..(Len(s) - 2) : SubSeq(s, i, i + 2) = sUSD

\* symbol.endsWith("USD")
endsWithUSD(s) == Len(s) >= 3 /\ SubSeq(s, Len(s) - 2, Len(s)) = sUSD

\* String(s).toUpperCase().trim()
Normalize(s) == trim(toUpperCase(s))

\* encodeURIComponent on the characters of MM/DD/YYYY: "/" becomes %2F.
RECURSIVE encodeURIComponent(_)
encodeURIComponent(s) ==
    IF s = <<>> THEN <<>>
    ELSE (IF Head(s) = "/" THEN <<"%", "2", "F">> ELSE <<Head(s)>>)
         \o encodeURIComponent(Tail(s))

\* The download URL, by its variable parts.
SourceUrl(symbol, mdy) ==
    [symbol    |-> symbol,
     startDate |-> encodeURIComponent(mdy),
     endDate   |-> encodeURIComponent(mdy),
     num_rows  |-> NUM_ROWS]

\* Whether fetchWSJ reaches its fetch(url) call for this raw symbol.
IssuesFetch(symbolRaw) ==
    SymbolRegex(Normalize(symbolRaw)) /\ endsWithUSD(Normalize(symbolRaw))

RespOkAlways(resp) == TRUE

\* resp.ok
RespOk(resp) == resp.status \in 200..299

\* The item fetchWSJ resolves to, given the upstream's answer to its request
\* (resp.kind "network": fetch or resp.text() rejected; "http": a response).
fetchWSJ(symbolRaw, mdy, iso, resp) ==
    LET symbol == Normalize(symbolRaw)
        url    == SourceUrl(symbol, mdy)
    IN IF ~SymbolRegex(symbol)
       THEN [symbol |-> symbol, status |-> "error", error |-> "invalid symbol"]
       ELSE IF ~endsWithUSD(symbol)
       THEN [symbol |-> symbol, status |-> "error",
             error |-> "not XXXUSD (reciprocals disabled)"]
       ELSE IF resp.kind = "network"
       THEN [symbol |-> symbol, status |-> "error", error |-> resp.message,
             source_url |-> url]
       ELSE IF ~RespOk(resp)
       THEN [symbol |-> symbol, status |-> "error",
             error |-> "HTTP " \o ToString(resp.status), source_url |-> url]
       ELSE LET parsed == parseWSJCSV(resp.body, iso)
            IN IF ~parsed.found
               THEN [symbol |-> symbol, status |-> "error", error |-> "row not found",
                     source_url |-> url]
               ELSE [symbol |-> symbol, status |-> "ok", close |-> parsed.close,
                     date |-> parsed.date, source_url |-> url]

(***************************************************************************)
(* The upstream quote service (external): what it answers to one download  *)
(* request, per scenario.  One symbol (the victim) gets the scenario's     *)
(* outcome, every other symbol a good CSV.                                 *)
(***************************************************************************)
sHeader == <<"D", "a", "t", "e", ",", " ", "O", "p", "e", "n", ",", " ", "H", "i", "g", "h", ",", " ", "L", "o", "w", ",", " ", "C", "l", "o", "s", "e">>

sOhl == <<",", " ", "1", ".", "0", "8", ",", " ", "1", ".", "0", "9", ",", " ", "1", ".", "0", "7", ",", " ">>

sNA == <<"N", "/", "A">>

sOtherDay == <<"0", "1", "/", "0", "2", "/", "2", "4">>

sDenied == <<"A", "c", "c", "e", "s", "s", " ", "d", "e", "n", "i", "e", "d">>

\* MM/DD/YY of MM/DD/YYYY
ShortDate(mdy) == SubSeq(mdy, 1, 6) \o SubSeq(mdy, 9, 10)

\* The close the upstream publishes for a symbol (distinct per first letter).
CloseOf(symbol) == <<"1", ".">> \o Pad2(CharCode(symbol[1]))

CsvRow(date, close) == date \o sOhl \o close

CsvDoc(rows) ==
    sHeader \o <<"\n">> \o rows[1] \o <<"\r", "\n">> \o rows[2] \o <<"\n">>

Outcomes == {"ok", "http403", "http500", "network", "norow", "badclose", "denied"}

Answer(outcome, symbol, mdy) ==
    IF outcome = "network"
    THEN [kind |-> "network", message |-> "fetch failed", status |-> 0, body |-> <<>>]
    ELSE IF outcome = "http403"
    THEN [kind |-> "http", message |-> "", status |-> 403, body |-> sDenied]
    ELSE IF outcome = "http500"
    THEN [kind |-> "http", message |-> "", status |-> 500, body |-> <<>>]
    ELSE IF outcome = "denied"
    THEN [kind |-> "http", message |-> "", status |-> 200, body |-> sDenied]
    ELSE IF outcome = "norow"
    THEN [kind |-> "http", message |-> "", status |-> 200,
          body |-> CsvDoc(<<CsvRow(sOtherDay, CloseOf(symbol)),
                            CsvRow(sOtherDay, CloseOf(symbol))>>)]
    ELSE IF outcome = "badclose"
    THEN [kind |-> "http", message |-> "", status |-> 200,
          body |-> CsvDoc(<<CsvRow(ShortDate(mdy), sNA),
                            CsvRow(sOtherDay, CloseOf(symbol))>>)]
    ELSE [kind |-> "http", message |-> "", status |-> 200,
          body |-> CsvDoc(<<CsvRow(ShortDate(mdy), CloseOf(symbol)),
                            CsvRow(sOtherDay, CloseOf(symbol))>>)]

Upstream(scenario, symbol, mdy) ==
    Answer(IF symbol = scenario.victim THEN scenario.outcome ELSE "ok", symbol, mdy)

(***************************************************************************)
(* The handler of src/api/fx.js                                            *)
(*                                                                         *)
(* The handler runs from its entry to its first await in one step.  Each   *)
(* later step is one settling runOne call together with the continuations  *)
(* it triggers (the push, the finally callback, the race and the handler's *)
(* next loop pass).  Resuming the handler at once after every settlement   *)
(* keeps the running set as full as the code allows, so every completion   *)
(* order a later resumption permits is among the ones explored.            *)
(***************************************************************************)
VARIABLES
    req,          \* the request: method, query/body fields
    tz,           \* the process's local time zone, hours east of UTC
    scenario,     \* the upstream's behaviour during this invocation
    pc,           \* "start", "await" (at await Promise.race), "done"
    symbols,      \* the handler's symbols
    resolvedISO,
    mdy,
    queue,
    started,      \* the symbols runOne was called with, in call order (promise ids)
    running,      \* the Set of promises (ids)
    results,
    calls,        \* the upstream's log of the requests it received
    firstDone,    \* history: the symbol whose result was pushed first
    outOfOrder,   \* history: a result was pushed after one of a greater symbol
    response,
    arg,          \* argument and result of a helper applied on its own
    ret

vars == <<req, tz, scenario, pc, symbols, resolvedISO, mdy, queue, started, running,
          results, calls, firstDone, outOfOrder, response, arg, ret>>

\* parseSymbolList(s)
parseSymbolList(s) == IF s = <<>> THEN <<>> ELSE filterBoolean(mapTrim(split(s, ",")))

\* clean(arr)
clean(arr) == filterBoolean(mapTrim(arr))

\* The input parsing of lines 31-44, the date check of 46-48 and the date
\* resolution of 51-56: the status to answer at once (405, 400, 500), or 200 with
\* the symbols, the resolved date and the queue.
Entry(r, zone) ==
    LET fail(st, msg) ==
            [status |-> st, error |-> msg, symbols |-> <<>>, resolvedISO |-> <<>>,
             mdy |-> <<>>, queue |-> <<>>]
        coverage == toLowerCase(IF r.coverage = <<>> THEN sFull ELSE r.coverage)
        given    == IF r.method = "GET" THEN parseSymbolList(r.symbolsQuery)
                    ELSE clean(r.symbolsBody)
        syms     == IF given = <<>> THEN CoverageLookup(coverage)
                    ELSE [array |-> TRUE, list |-> given]
        iso      == priorBizIfWeekend(r.date, zone)
    IN IF r.method \notin {"GET", "POST"} THEN fail(405, "Use GET or POST")
       ELSE IF r.coverage # <<>> /\ ~r.coverageIsString
       THEN fail(500, "toLowerCase is not a function")
       ELSE IF r.date = <<>> \/ ~DateRegex(r.date) THEN fail(400, "date must be YYYY-MM-DD")
       ELSE IF iso = RangeError THEN fail(500, "Invalid time value")
       ELSE IF ~syms.array THEN fail(500, "map is not a function")
       ELSE [status |-> 200, error |-> "", symbols |-> syms.list, resolvedISO |-> iso,
             mdy |-> toMMDDYYYY(iso),
             queue |-> [i \in DOMAIN syms.list |-> Normalize(syms.list[i])]]

HasRoomOffByOne(size) == size <= CONCURRENCY

\* running.size < CONCURRENCY
HasRoom(size) == size < CONCURRENCY

RefillCountOnce(qlen, size) == IF qlen > 0 /\ HasRoom(size) THEN 1 ELSE 0

\* How many symbols the inner while loop of lines 66-70 shifts off the queue.
RECURSIVE RefillCount(_, _)
RefillCount(qlen, size) ==
    IF qlen > 0 /\ HasRoom(size) THEN 1 + RefillCount(qlen - 1, size + 1) ELSE 0

\* The requests the upstream receives from the fetchWSJ calls for these symbols.
RECURSIVE UpstreamCalls(_, _)
UpstreamCalls(syms, date) ==
    IF syms = <<>> THEN <<>>
    ELSE (IF IssuesFetch(Head(syms)) THEN <<SourceUrl(Normalize(Head(syms)), date)>> ELSE <<>>)
         \o UpstreamCalls(Tail(syms), date)

\* One pass of the loop body of lines 66-71 from the given queue and running set:
\* start what fits, then await Promise.race(running).
Refill(q, run, date) ==
    LET k   == RefillCount(Len(q), Cardinality(run))
        new == (Len(started) + 1)..(Len(started) + k)
    IN /\ queue' = SubSeq(q, k + 1, Len(q))
       /\ started' = started \o SubSeq(q, 1, k)
       /\ running' = run \cup new
       /\ calls' = calls \o UpstreamCalls(SubSeq(q, 1, k), date)

LoopWhileQueued(q, run) == Len(q) > 0

\* queue.length || running.size
LoopContinues(q, run) == Len(q) > 0 \/ run # {}

\* Array.prototype.sort with (a, b) => a.symbol.localeCompare(b.symbol): stable.
RECURSIVE InsertItem(_, _)
InsertItem(sorted, item) ==
    IF sorted = <<>> THEN <<item>>
    ELSE IF localeCompare(Head(sorted).symbol, item.symbol) <= 0
    THEN <<Head(sorted)>> \o InsertItem(Tail(sorted), item)
    ELSE <<item>> \o sorted

SortNothing(list) == list

RECURSIVE SortBySymbol(_)
SortBySymbol(list) ==
    IF list = <<>> THEN <<>>
    ELSE InsertItem(SortBySymbol(SubSeq(list, 1, Len(list) - 1)), list[Len(list)])

CountStatus(list, ok) ==
    Cardinality({i \in DOMAIN list : (list[i].status = "ok") = ok})

\* Lines 74-81
OkBody(syms, iso, res) ==
    [resolvedDate |-> iso,
     total        |-> Len(syms),
     ok           |-> CountStatus(res, TRUE),
     fail         |-> CountStatus(res, FALSE),
     items        |-> SortBySymbol(res)]

NoResponse == [status |-> 0]

\* The handler from its entry to its first await (or to its early response).
Handle ==
    /\ pc = "start"
    /\ LET e == Entry(req, tz)
       IN IF e.status # 200
          THEN /\ response' = [status |-> e.status, body |-> [error |-> e.error]]
               /\ pc' = "done"
               /\ UNCHANGED <<symbols, resolvedISO, mdy, queue, started, running, calls>>
          ELSE /\ symbols' = e.symbols
               /\ resolvedISO' = e.resolvedISO
               /\ mdy' = e.mdy
               /\ Refill(e.queue, {}, e.mdy)
               /\ pc' = "await"
               /\ UNCHANGED response
    /\ UNCHANGED <<req, tz, scenario, results, firstDone, outOfOrder, arg, ret>>

\* The result runOne(sym) pushes for promise i.
RunOneResult(i) ==
    fetchWSJ(started[i], mdy, resolvedISO, Upstream(scenario, started[i], mdy))

\* Promise i settles: runOne pushes its result, the finally callback deletes the
\* promise from running, and the handler, resumed by Promise.race, takes its next
\* loop pass or leaves the loop and responds.
Complete(i) ==
    /\ i \in running
    /\ LET item == RunOneResult(i)
           res  == Append(results, item)
           run  == running \ {i}
       IN /\ firstDone' = IF results = <<>> THEN item.symbol ELSE firstDone
          /\ outOfOrder' =
                (\/ outOfOrder
                 \/ results # <<>> /\ LexCompare(results[Len(results)].symbol, item.symbol) > 0)
          /\ IF pc # "await"
             THEN /\ results' = res
                  /\ running' = run
                  /\ UNCHANGED <<pc, queue, started, calls, response>>
             ELSE IF LoopContinues(queue, run)
             THEN /\ results' = res
                  /\ Refill(queue, run, mdy)
                  /\ UNCHANGED <<pc, response>>
             ELSE /\ response' = [status |-> 200, body |-> OkBody(symbols, resolvedISO, res)]
                  /\ results' = SortBySymbol(res)
                  /\ running' = run
                  /\ pc' = "done"
                  /\ UNCHANGED <<queue, started, calls>>
    /\ UNCHANGED <<req, tz, scenario, symbols, resolvedISO, mdy, arg, ret>>

(***************************************************************************)
(* The requests and environments explored                                  *)
(***************************************************************************)
MaxSymbols == 7

\* Lists up to this length are explored under every upstream scenario.
MaxVaried == 4

\* Valid symbols as a caller may write them, out of order.
PoolSymbols ==
    << <<"N", "O", "K", "U", "S", "D">>,
       <<" ", "g", "b", "p", "u", "s", "d">>,
       <<"E", "U", "R", "U", "S", "D">>,
       <<"j", "p", "y", "u", "s", "d", " ">>,
       <<"C", "A", "D", "U", "S", "D">>,
       <<"A", "U", "D", "U", "S", "D">>,
       <<"c", "h", "f", "u", "s", "d">>,
       <<"S", "E", "K", "U", "S", "D">>,
       <<"N", "Z", "D", "U", "S", "D">>,
       <<"D", "K", "K", "U", "S", "D">> >>

\* Invalid, reciprocal, duplicate and lower-case entries.
MixedSymbols ==
    << <<"U", "S", "D", "E", "U", "R">>,
       <<"e", "u", "r", "u", "s", "d">>,
       <<"E", "U">>,
       <<" ", "G", "B", "P", "U", "S", "D", " ">>,
       <<"E", "U", "R", "U", "S", "D">>,
       <<"E", "U", "R", "1", "S", "D">> >>

sSaturday == <<"2", "0", "2", "4", "-", "0", "6", "-", "0", "8">>

sSunday == <<"2", "0", "2", "4", "-", "0", "6", "-", "0", "9">>

sMonday == <<"2", "0", "2", "4", "-", "0", "6", "-", "1", "0">>

sFriday == <<"2", "0", "2", "4", "-", "0", "6", "-", "0", "7">>

DateInputs ==
    {<<>>, sSaturday, sSunday, sMonday,
     <<"0", "6", "/", "0", "7", "/", "2", "0", "2", "4">>,
     <<"2", "0", "2", "4", "-", "6", "-", "8">>,
     <<"2", "0", "2", "4", "-", "1", "3", "-", "0", "1">>,
     <<"2", "0", "2", "4", "-", "0", "2", "-", "3", "0">>}

CoverageInputs ==
    {<<>>, sMajors, <<"F", "U", "L", "L">>, <<"b", "o", "g", "u", "s">>, sConstructor}

\* Hours east of UTC of the process's local time: UTC (the hosting platform's),
\* and a zone east and west of it.
TimeZones == {0, 9, -7}

sEURUSD == <<"E", "U", "R", "U", "S", "D">>

sGBPUSD == <<"G", "B", "P", "U", "S", "D">>

Scenarios == [victim : {sEURUSD, sGBPUSD}, outcome : Outcomes]

AllOk == [victim |-> sEURUSD, outcome |-> "ok"]

Eur403 == [victim |-> sEURUSD, outcome |-> "http403"]

Request(method, date, coverage, isString, list) ==
    [method           |-> method,
     date             |-> date,
     coverage         |-> coverage,
     coverageIsString |-> isString,
     symbolsQuery     |-> IF method = "GET" THEN join(list) ELSE <<>>,
     symbolsBody      |-> IF method = "GET" THEN <<>> ELSE list]

Prefix(list, n) == SubSeq(list, 1, IF n < Len(list) THEN n ELSE Len(list))

\* Requests whose date, coverage and method vary, with few symbols.
ValidationRequests ==
    {Request(m, d, c, s, l) :
        m \in {"GET", "POST", "PUT"}, d \in DateInputs, c \in CoverageInputs,
        s \in BOOLEAN, l \in {<<>>, Prefix(MixedSymbols, 2)}}

\* Valid requests with up to MaxVaried symbols, for every scenario.
VariedRequests ==
    {Request(m, sSaturday, <<>>, TRUE, Prefix(l, n)) :
        m \in {"GET", "POST"}, l \in {PoolSymbols, MixedSymbols}, n \in 1..MaxVaried}

\* Valid requests with up to MaxSymbols symbols.
LongRequests ==
    {Request("GET", sSaturday, <<>>, TRUE, Prefix(l, n)) :
        l \in {PoolSymbols, MixedSymbols}, n \in 1..MaxSymbols}

\* The batch of a request fits the exploration: it is answered at once, or it
\* queues at most MaxSymbols symbols.
Explored(r, zone) == Len(Entry(r, zone).queue) <= MaxSymbols

InitHandler(r, zone, scn) ==
    /\ req = r
    /\ tz = zone
    /\ scenario = scn
    /\ pc = "start"
    /\ symbols = <<>>
    /\ resolvedISO = <<>>
    /\ mdy = <<>>
    /\ queue = <<>>
    /\ started = <<>>
    /\ running = {}
    /\ results = <<>>
    /\ calls = <<>>
    /\ firstDone = <<>>
    /\ outOfOrder = FALSE
    /\ response = NoResponse
    /\ arg = <<>>
    /\ ret = <<>>

Init ==
    \/ \E r \in ValidationRequests, zone \in TimeZones :
          Explored(r, zone) /\ InitHandler(r, zone, AllOk)
    \/ \E r \in VariedRequests, scn \in Scenarios : InitHandler(r, 0, scn)
    \/ \E r \in LongRequests : InitHandler(r, 0, Eur403)

Next ==
    \/ Handle
    \/ \E i \in DOMAIN started : Complete(i)

Spec == Init /\ [][Next]_vars

(***************************************************************************)
(* Properties of the handler                                               *)
(***************************************************************************)
Done200 == pc = "done" /\ response.status = 200

Items == response.body.items

Occurrences(list, x) == Cardinality({i \in DOMAIN list : list[i] = x})

\* The upper-cased, trimmed form of a raw symbol, spelled out for the properties.
IsDirectPair(sym) ==
    /\ Len(sym) = 6
    /\ \A i \in DOMAIN sym : sym[i] \in UpperSet
    /\ <<sym[4], sym[5], sym[6]>> = sUSD

InFlight == {i \in running : IsDirectPair(trim(toUpperCase(started[i])))}

\* C1: in the 200 response total = ok + fail = |items|, and items holds exactly
\* one result for each entry of the requested symbol list: every normalised
\* requested symbol occurs among the items as often as in the request.
C1_OneResultPerSymbol ==
    Done200 =>
        LET b    == response.body
            want == [i \in DOMAIN symbols |-> trim(toUpperCase(symbols[i]))]
            got  == [i \in DOMAIN b.items |-> b.items[i].symbol]
        IN /\ b.total = b.ok + b.fail
           /\ b.total = Len(b.items)
           /\ b.total = Len(symbols)
           /\ \A i \in DOMAIN want : Occurrences(got, want[i]) = Occurrences(want, want[i])
           /\ \A i \in DOMAIN got : Occurrences(want, got[i]) > 0

C1_Witness ==
    /\ Done200
    /\ response.body.total > CONCURRENCY
    /\ response.body.ok > 0
    /\ response.body.fail > 0

\* C2: at no instant are more than CONCURRENCY (6) upstream fetches in flight.
C2_AtMostSixInFlight == Cardinality(InFlight) <= CONCURRENCY

C2_Witness == Cardinality(InFlight) = CONCURRENCY /\ Len(queue) > 0

\* The items a request must produce under the scenario's per-symbol outcomes,
\* whatever the completion order: the entries ranked by symbol, entries of equal
\* symbol by their place in the request, each with the item of its own fetch.
ExpectedItems ==
    LET sym  == [i \in DOMAIN symbols |-> trim(toUpperCase(symbols[i]))]
        rank == [e \in DOMAIN symbols |->
                    1 + Cardinality({f \in DOMAIN symbols :
                                        \/ LexCompare(sym[f], sym[e]) < 0
                                        \/ LexCompare(sym[f], sym[e]) = 0 /\ f < e})]
        item == [e \in DOMAIN symbols |->
                    fetchWSJ(symbols[e], mdy, resolvedISO, Upstream(scenario, sym[e], mdy))]
    IN [k \in DOMAIN symbols |-> item[CHOOSE e \in DOMAIN symbols : rank[e] = k]]

\* C3: the items of the 200 response are in ascending order of symbol, and they
\* are the same sequence for every completion order of the fetches.
C3_SortedWhateverTheOrder ==
    Done200 =>
        /\ \A k \in 1..(Len(Items) - 1) : LexCompare(Items[k].symbol, Items[k + 1].symbol) <= 0
        /\ Items = ExpectedItems

\* The fetches completed in an order that is not the order of the symbols.
C3_Witness == Done200 /\ outOfOrder /\ Len(Items) > CONCURRENCY

ExpectedError(outcome) ==
    IF outcome = "http403" THEN "HTTP 403"
    ELSE IF outcome = "http500" THEN "HTTP 500"
    ELSE IF outcome = "network" THEN "fetch failed"
    ELSE "row not found"

\* The item of a symbol whose fetch succeeded.
GoodItem(sym) ==
    [symbol     |-> sym,
     status     |-> "ok",
     close      |-> CloseOf(sym),
     date       |-> resolvedISO,
     source_url |-> [symbol |-> sym, startDate |-> encodeURIComponent(mdy),
                     endDate |-> encodeURIComponent(mdy), num_rows |-> NUM_ROWS]]

\* C6: when the fetch of one symbol fails (HTTP status, network, missing or
\* unparsable row), its item is an error item with the failure's message and the
\* source_url, every other fetched symbol's item is the item of a successful
\* fetch, and no requested symbol is skipped.
C6_FailureIsolated ==
    (Done200 /\ scenario.outcome # "ok") =>
        /\ Len(Items) = Len(symbols)
        /\ queue = <<>>
        /\ \A k \in DOMAIN Items :
              IF Items[k].symbol = scenario.victim
              THEN /\ Items[k].status = "error"
                   /\ Items[k].error = ExpectedError(scenario.outcome)
                   /\ DOMAIN Items[k] = {"symbol", "status", "error", "source_url"}
                   /\ Items[k].source_url.symbol = scenario.victim
              ELSE IsDirectPair(Items[k].symbol) => Items[k] = GoodItem(Items[k].symbol)

\* The victim failed with HTTP 403 before other fetches of the batch completed.
C6_Witness ==
    /\ Done200
    /\ scenario.outcome = "http403"
    /\ \E k \in DOMAIN Items : Items[k].symbol = scenario.victim /\ Items[k].error = "HTTP 403"
    /\ \E k \in DOMAIN Items : Items[k].status = "ok"
    /\ Len(Items) > CONCURRENCY
    /\ firstDone = scenario.victim

\* C8: a symbol that, upper-cased and trimmed, is not six letters gets the item
\* "invalid symbol"; six letters not ending in USD get "not XXXUSD (reciprocals
\* disabled)"; neither has a source_url nor causes an upstream request; only
\* XXXUSD symbols, reported upper-cased, are fetched.
C8_SymbolValidation ==
    /\ \A c \in DOMAIN calls : IsDirectPair(calls[c].symbol)
    /\ Len(calls) = Cardinality({i \in DOMAIN started : IsDirectPair(trim(toUpperCase(started[i])))})
    /\ \A k \in DOMAIN results :
          LET it == results[k]
          IN /\ \A j \in DOMAIN it.symbol : it.symbol[j] \notin LowerSet
             /\ IF Len(it.symbol) # 6 \/ \E j \in DOMAIN it.symbol : it.symbol[j] \notin UpperSet
                THEN it = [symbol |-> it.symbol, status |-> "error", error |-> "invalid symbol"]
                ELSE IF ~IsDirectPair(it.symbol)
                THEN it = [symbol |-> it.symbol, status |-> "error",
                           error |-> "not XXXUSD (reciprocals disabled)"]
                ELSE /\ "source_url" \in DOMAIN it
                     /\ \E c \in DOMAIN calls : calls[c] = it.source_url

\* A batch with an invalid, a reciprocal and a lower-case symbol was answered.
C8_Witness ==
    /\ Done200
    /\ \E k \in DOMAIN Items : Items[k].status = "error" /\ Items[k].error = "invalid symbol"
    /\ \E k \in DOMAIN Items :
          Items[k].status = "error" /\ Items[k].error = "not XXXUSD (reciprocals disabled)"
    /\ \E k \in DOMAIN Items : Items[k].status = "ok" /\ Items[k].symbol = sEURUSD
    /\ \E i \in DOMAIN symbols : symbols[i] = toLowerCase(sEURUSD)

\* C5 as claimed: a request with an unsupported method or a missing or malformed
\* date is answered 405 or 400 with only {error}, and no upstream fetch starts.
C5_ValidationFailsFast ==
    (pc = "done" /\ (req.method \notin {"GET", "POST"} \/ req.date = <<>> \/ ~DateRegex(req.date))) =>
        /\ response.status = (IF req.method \notin {"GET", "POST"} THEN 405 ELSE 400)
        /\ DOMAIN response.body = {"error"}
        /\ calls = <<>>
        /\ started = <<>>

\* C7 as claimed: every GET or POST request whose date matches the pattern is
\* answered 200.
C7_WellFormedGets200 ==
    (pc = "done" /\ req.method \in {"GET", "POST"} /\ req.date # <<>> /\ DateRegex(req.date)) =>
        response.status = 200

(***************************************************************************)
(* Progress of the worker pool, every started fetch completing             *)
(***************************************************************************)
FairInit == \E r \in LongRequests : InitHandler(r, 0, Eur403)

\* The handler invocation runs: the step of Handle, as pc shows it.
Begins == pc = "start" /\ pc' \in {"await", "done"}

\* The fetch of promise i completes, with success or error: the step of
\* Complete(i), as the running set shows it.  No other step removes i from running
\* (SettlesIsComplete), so fairness of Settles(i) is fairness of Complete(i); its
\* enabling condition is i \in running alone.
Settles(i) ==
    /\ i \in running
    /\ running' \in SUBSET ((1..(Len(started) + Len(queue))) \ {i})

SettlesIsComplete ==
    [][/\ Begins <=> Handle
       /\ \A i \in 1..(MaxSymbols + 1) : Settles(i) <=> Complete(i)]_vars

\* Every started upstream fetch eventually completes, and the invocation itself is
\* run by the platform.
FairSpec ==
    /\ FairInit
    /\ [][Next]_vars
    /\ WF_pc(Begins)
    /\ \A i \in 1..(MaxSymbols + 1) : WF_running(Settles(i))

\* C10: every queued symbol is eventually started and the response is eventually
\* sent; when it is sent the queue is empty, nothing is in flight and every started
\* fetch has recorded its result; the loop never waits with a non-empty queue and
\* a free slot.
C10_PoolProgress ==
    /\ (Len(queue) > 0) ~> (Len(queue) = 0)
    /\ (pc = "start") ~> (pc = "done")
    /\ [](pc = "done" =>
            /\ queue = <<>>
            /\ running = {}
            /\ Len(started) = Len(symbols)
            /\ Len(results) = Len(started))
    /\ [](pc = "await" =>
            /\ running # {}
            /\ Len(queue) > 0 => Cardinality(running) = CONCURRENCY)

\* A batch longer than the cap was answered: part of it had to wait in the queue.
C10_Witness == pc = "done" /\ response.status = 200 /\ Len(started) > CONCURRENCY

(***************************************************************************)
(* priorBizIfWeekend on its own                                            *)
(***************************************************************************)
MaxDays == 120

FirstDay == DaysFromCivil(2023, 12, 25)

DateZones == (-12)..14

Idle ==
    /\ req = <<>>
    /\ scenario = AllOk
    /\ pc = "idle"
    /\ symbols = <<>>
    /\ resolvedISO = <<>>
    /\ mdy = <<>>
    /\ queue = <<>>
    /\ started = <<>>
    /\ running = {}
    /\ results = <<>>
    /\ calls = <<>>
    /\ firstDone = <<>>
    /\ outOfOrder = FALSE
    /\ response = NoResponse

InitDate ==
    /\ Idle
    /\ tz \in DateZones
    /\ \E k \in 0..MaxDays : arg = IsoOfDays(FirstDay + k)
    /\ ret = <<>>

ResolveDate ==
    /\ pc = "idle"
    /\ ret = <<>>
    /\ ret' = priorBizIfWeekend(arg, tz)
    /\ UNCHANGED <<req, tz, scenario, pc, symbols, resolvedISO, mdy, queue, started, running,
                   results, calls, firstDone, outOfOrder, response, arg>>

SpecDate == InitDate /\ [][ResolveDate]_vars

DayOf(iso) == DaysFromCivil(IsoYear(iso), IsoMonth(iso), IsoDay(iso))

\* C4 as claimed: whatever the environment, a Saturday resolves to the day before,
\* a Sunday to two days before, any other day to itself, and the resolved date is
\* never a Saturday or a Sunday.
C4_WeekendRollsToFriday ==
    ret # <<>> =>
        LET d  == DayOf(arg)
            wd == (d + 4) % 7
        IN /\ ret = IsoOfDays(IF wd = 6 THEN d - 1 ELSE IF wd = 0 THEN d - 2 ELSE d)
           /\ (DayOf(ret) + 4) % 7 \notin {0, 6}

(***************************************************************************)
(* parseWSJCSV on its own                                                  *)
(***************************************************************************)
MaxRows == 2

\* Header layouts: the column names as the upstream writes them, and what each
\* column holds (D the date, C the close, x another number).
Layouts ==
    {[names |-> <<<<"D", "a", "t", "e">>, <<"O", "p", "e", "n">>, <<"H", "i", "g", "h">>, <<"L", "o", "w">>, <<"C", "l", "o", "s", "e">>, <<"V", "o", "l", "u", "m", "e">>>>,
      kinds |-> <<"D", "x", "x", "x", "C", "x">>, eol |-> <<"\n">>],
     [names |-> <<<<"D", "a", "t", "e">>, <<" ", "O", "p", "e", "n">>, <<" ", "H", "i", "g", "h">>, <<" ", "L", "o", "w">>, <<" ", "C", "l", "o", "s", "e">>>>,
      kinds |-> <<"D", "x", "x", "x", "C">>, eol |-> <<"\r", "\n">>],
     [names |-> <<<<"C", "L", "O", "S", "E">>, <<"d", "a", "t", "e">>>>,
      kinds |-> <<"C", "D">>, eol |-> <<"\n">>],
     [names |-> <<<<"D", "a", "t", "e">>, <<"O", "p", "e", "n">>>>,
      kinds |-> <<"D", "x">>, eol |-> <<"\n">>],
     [names |-> <<<<"O", "p", "e", "n">>, <<"C", "l", "o", "s", "e">>>>,
      kinds |-> <<"x", "C">>, eol |-> <<"\n">>]}

\* Data rows: the date and close fields as written, with what they mean (the ISO
\* date the date field denotes, <<>> when it is not M/D/Y; the close without its
\* surrounding blanks; whether that is a number).  A short row has only its first
\* field, the date.
RowKinds ==
    {[date |-> <<"0", "6", "/", "0", "7", "/", "2", "4">>, iso |-> <<"2", "0", "2", "4", "-", "0", "6", "-", "0", "7">>, close |-> <<"1", ".", "0", "8", "5">>, trimmed |-> <<"1", ".", "0", "8", "5">>, numeric |-> TRUE, short |-> FALSE],
     [date |-> <<"0", "6", "/", "0", "7", "/", "2", "0", "2", "4">>, iso |-> <<"2", "0", "2", "4", "-", "0", "6", "-", "0", "7">>, close |-> <<" ", "1", ".", "2", " ">>, trimmed |-> <<"1", ".", "2">>, numeric |-> TRUE, short |-> FALSE],
     [date |-> <<"6", "/", "7", "/", "2", "4">>, iso |-> <<"2", "0", "2", "4", "-", "0", "6", "-", "0", "7">>, close |-> <<"1", "e", "-", "3">>, trimmed |-> <<"1", "e", "-", "3">>, numeric |-> TRUE, short |-> FALSE],
     [date |-> <<"0", "6", "/", "0", "7", "/", "2", "4">>, iso |-> <<"2", "0", "2", "4", "-", "0", "6", "-", "0", "7">>, close |-> <<"N", "/", "A">>, trimmed |-> <<"N", "/", "A">>, numeric |-> FALSE, short |-> FALSE],
     [date |-> <<"0", "6", "/", "0", "7", "/", "2", "4">>, iso |-> <<"2", "0", "2", "4", "-", "0", "6", "-", "0", "7">>, close |-> <<>>, trimmed |-> <<>>, numeric |-> FALSE, short |-> FALSE],
     [date |-> <<"0", "6", "/", "0", "6", "/", "2", "4">>, iso |-> <<"2", "0", "2", "4", "-", "0", "6", "-", "0", "6">>, close |-> <<"1", ".", "1">>, trimmed |-> <<"1", ".", "1">>, numeric |-> TRUE, short |-> FALSE],
     [date |-> <<"0", "6", "/", "0", "7", "/", "5", "1">>, iso |-> <<"1", "9", "5", "1", "-", "0", "6", "-", "0", "7">>, close |-> <<"0", ".", "5">>, trimmed |-> <<"0", ".", "5">>, numeric |-> TRUE, short |-> FALSE],
     [date |-> <<"0", "6", "/", "0", "7", "/", "5", "0">>, iso |-> <<"2", "0", "5", "0", "-", "0", "6", "-", "0", "7">>, close |-> <<"-", ".", "7">>, trimmed |-> <<"-", ".", "7">>, numeric |-> TRUE, short |-> FALSE],
     [date |-> <<"0", "6", "/", "0", "7", "/", "2", "4">>, iso |-> <<"2", "0", "2", "4", "-", "0", "6", "-", "0", "7">>, close |-> <<>>, trimmed |-> <<>>, numeric |-> FALSE, short |-> TRUE],
     [date |-> <<"2", "0", "2", "4", "-", "0", "6", "-", "0", "7">>, iso |-> <<>>, close |-> <<"9", ".", "9">>, trimmed |-> <<"9", ".", "9">>, numeric |-> TRUE, short |-> FALSE]}

Targets == {sFriday, <<"1", "9", "5", "1", "-", "0", "6", "-", "0", "7">>, <<"2", "0", "5", "0", "-", "0", "6", "-", "0", "7">>}

sOther == <<"1", ".", "0", "8">>

RowText(layout, r) ==
    IF r.short THEN r.date
    ELSE join([i \in DOMAIN layout.kinds |->
                 IF layout.kinds[i] = "D" THEN r.date
                 ELSE IF layout.kinds[i] = "C" THEN r.close
                 ELSE sOther])

RECURSIVE RowsText(_, _)
RowsText(layout, rows) ==
    IF rows = <<>> THEN <<>>
    ELSE RowText(layout, Head(rows)) \o layout.eol \o RowsText(layout, Tail(rows))

CsvText(layout, rows) == join(layout.names) \o layout.eol \o RowsText(layout, rows)

RowLists == UNION {[1..n -> RowKinds] : n \in 0..MaxRows}

InitCsv ==
    /\ Idle
    /\ tz = 0
    /\ \E layout \in Layouts, rows \in RowLists, t \in Targets :
          arg = [csv |-> CsvText(layout, rows), isoWanted |-> t, layout |-> layout,
                 rows |-> rows]
    /\ ret = <<>>

ParseCsv ==
    /\ pc = "idle"
    /\ ret = <<>>
    /\ ret' = parseWSJCSV(arg.csv, arg.isoWanted)
    /\ UNCHANGED <<req, tz, scenario, pc, symbols, resolvedISO, mdy, queue, started, running,
                   results, calls, firstDone, outOfOrder, response, arg>>

SpecCsv == InitCsv /\ [][ParseCsv]_vars

HasColumns(layout) == {"D", "C"} \subseteq Range(layout.kinds)

\* C9 as claimed: the result is the date and the unmodified close string of the
\* first row whose date equals the target when that close is a number, and
\* not-found when no row matches, a column is missing from the header, or that
\* first matching row's close is missing, empty or not a number.
C9_FirstMatchingRow ==
    ret # <<>> =>
        LET hits == {k \in DOMAIN arg.rows : arg.rows[k].iso = arg.isoWanted}
        IN IF ~HasColumns(arg.layout) \/ hits = {} THEN ret = NotFound
           ELSE LET r == arg.rows[Min(hits)]
                IN IF r.short \/ ~r.numeric THEN ret = NotFound
                   ELSE ret = [found |-> TRUE, date |-> arg.isoWanted, close |-> r.close]

\* C9 amended: the rows that lack a field at the Date or Close position are
\* skipped, and the close is returned without its surrounding white space.
C9_FirstCompleteMatchingRow ==
    ret # <<>> =>
        LET hits == {k \in DOMAIN arg.rows :
                        ~arg.rows[k].short /\ arg.rows[k].iso = arg.isoWanted}
        IN IF ~HasColumns(arg.layout) \/ hits = {} THEN ret = NotFound
           ELSE LET r == arg.rows[Min(hits)]
                IN IF ~r.numeric THEN ret = NotFound
                   ELSE ret = [found |-> TRUE, date |-> arg.isoWanted, close |-> r.trimmed]

\* A close found by header name in a reordered, upper-case header, in the second
\* row, for a two-digit year past the pivot.
C9_Witness ==
    /\ ret # <<>>
    /\ ret.found
    /\ arg.layout.kinds = <<"C", "D">>
    /\ Len(arg.rows) = 2
    /\ arg.rows[1].iso # arg.isoWanted
    /\ arg.isoWanted # sFriday

=============================================================================
